---- MODULE Spec2Model ----
(***************************************************************************)
(* Model of code-agent/playground/main.py: BasicUnit, Solution.__init__,   *)
(* Solution.can_match and Solution.solve (the forward dynamic program over *)
(* target prefixes), together with the two example inputs of main().       *)
(*                                                                         *)
(* Python strings are sequences of one-character strings; Python's 0-based *)
(* index x is the TLA+ index x + 1.  The tables dp_cost and dp_units are    *)
(* functions on 0..n.                                                      *)
(***************************************************************************)
EXTENDS Integers, Sequences, FiniteSets, TLC

VARIABLES target_sequence, basic_units, dp_cost, dp_units,
          pc, i, k, j, matched, ret, calls, first_ret

vars == <<target_sequence, basic_units, dp_cost, dp_units,
          pc, i, k, j, matched, ret, calls, first_ret>>

-----------------------------------------------------------------------------
(* Bounds of the explored inputs. *)

MaxTargetLen == 3
MaxUnitLen == 3
MaxUnits == 2
MaxCost == 1
MaxDmax == 1
MaxSliceLen == 3
MaxCalls == 2

-----------------------------------------------------------------------------
(* Values. *)

NUCLEOTIDES == {"A", "C", "G", "T"}

\* float('inf'): larger than every finite table value; see Plus.
INF == 1000000

\* a sentinel that ordinary addition moves
PlusNoSentinel(x, y) == x + y

\* x + y where x may be float('inf'): inf + y = inf for every finite y.
Plus(x, y) == IF x = INF THEN INF ELSE x + y

BasicUnit(sequence, cost, dmax) ==
    [sequence |-> sequence, cost |-> cost, dmax |-> dmax, length |-> Len(sequence)]

\* target_sequence[a:b] for 0 <= a <= b <= len
Slice(s, a, b) == SubSeq(s, a + 1, b)

SeqsUpTo(S, lo, hi) == UNION {[1..n -> S] : n \in lo..hi}

-----------------------------------------------------------------------------
(* Solution.can_match: the greedy forward scan. *)

\* the budget test off by one
OverBudgetOffByOne(deletions, dmax) == deletions >= dmax

\* the budget test of lines 52 and 58
OverBudget(deletions, dmax) == deletions > dmax

RECURSIVE Scan(_, _, _, _, _)
Scan(unit, ts, ci, cj, deletions) ==
    IF ci < Len(unit.sequence) /\ cj < Len(ts)
    THEN IF unit.sequence[ci + 1] = ts[cj + 1]
         THEN Scan(unit, ts, ci + 1, cj + 1, deletions)
         ELSE IF OverBudget(deletions + 1, unit.dmax)
              THEN [ret |-> FALSE, early |-> TRUE, i |-> ci, j |-> cj,
                    deletions |-> deletions + 1]
              ELSE Scan(unit, ts, ci + 1, cj, deletions + 1)
    ELSE LET remaining == Len(ts) - cj
         IN  [ret |-> ~OverBudget(deletions + remaining, unit.dmax), early |-> FALSE,
              i |-> ci, j |-> cj, deletions |-> deletions]

can_match(unit, target_subsequence) == Scan(unit, target_subsequence, 0, 0, 0).ret

-----------------------------------------------------------------------------
(* Solution.__init__ *)

InitCost(n) == [x \in 0..n |-> IF x = 0 THEN 0 ELSE INF]

Construct(target, units) ==
    /\ target_sequence = target
    /\ basic_units = units
    /\ dp_cost = InitCost(Len(target))
    /\ dp_units = InitCost(Len(target))
    /\ pc = "ready"
    /\ i = 0 /\ k = 0 /\ j = 0
    /\ matched = FALSE
    /\ ret = [kind |-> "pending"]
    /\ calls = 0
    /\ first_ret = [kind |-> "pending"]

-----------------------------------------------------------------------------
(* Solution.solve: one action per iteration of the innermost loop body. *)

Max(a, b) == IF a >= b THEN a ELSE b

\* start = max(0, i - len(unit.sequence))
Start(ii, unit) == Max(0, ii - Len(unit.sequence))

\* The first iteration of the loop nest at or after (outer position ii, unit
\* number kk); ii = n + 1 when the loops are exhausted.
RECURSIVE FirstPos(_, _, _, _)
FirstPos(n, units, ii, kk) ==
    IF ii > n THEN [i |-> n + 1, k |-> 0, j |-> 0]
    ELSE IF kk > Len(units) THEN FirstPos(n, units, ii + 1, 1)
    ELSE IF Start(ii, units[kk]) < ii
         THEN [i |-> ii, k |-> kk, j |-> Start(ii, units[kk])]
         ELSE FirstPos(n, units, ii, kk + 1)

\* The iteration that follows (ii, kk, jj).
NextPos(n, units, ii, kk, jj) ==
    IF jj + 1 < ii THEN [i |-> ii, k |-> kk, j |-> jj + 1]
    ELSE FirstPos(n, units, ii, kk + 1)

Goto(pos) ==
    /\ i' = pos.i /\ k' = pos.k /\ j' = pos.j
    /\ pc' = IF pos.i > Len(target_sequence) THEN "return" ELSE "sweep"

\* line 79 with <= for <
ImprovesOrEqual(cand_cost, cur_cost) == cand_cost <= cur_cost

\* line 79
Improves(cand_cost, cur_cost) == cand_cost < cur_cost

\* line 82 with the unit counts compared the wrong way round
TieBreaksWrongWay(cand_cost, cand_units, cur_cost, cur_units) ==
    cand_cost = cur_cost /\ cand_units > cur_units

\* line 82 with # for <
TieBreaksAnyChange(cand_cost, cand_units, cur_cost, cur_units) ==
    cand_cost = cur_cost /\ cand_units # cur_units

\* line 82
TieBreaks(cand_cost, cand_units, cur_cost, cur_units) ==
    cand_cost = cur_cost /\ cand_units < cur_units

CandCost == Plus(dp_cost[j], basic_units[k].cost)
CandUnits == Plus(dp_units[j], 1)
Feasible == can_match(basic_units[k], Slice(target_sequence, j, i))

Advance ==
    /\ Goto(NextPos(Len(target_sequence), basic_units, i, k, j))
    /\ UNCHANGED <<target_sequence, basic_units, ret, calls, first_ret>>

\* solve() is entered: the loop nest starts (line 68)
SolveCall ==
    /\ pc = "ready"
    /\ calls < MaxCalls
    /\ Goto(FirstPos(Len(target_sequence), basic_units, 1, 1))
    /\ UNCHANGED <<target_sequence, basic_units, dp_cost, dp_units,
                   matched, ret, calls, first_ret>>

\* line 74 false
SweepNoMatch ==
    /\ pc = "sweep"
    /\ ~Feasible
    /\ matched' = FALSE
    /\ UNCHANGED <<dp_cost, dp_units>>
    /\ Advance

\* lines 79-81
SweepImprove ==
    /\ pc = "sweep"
    /\ Feasible
    /\ Improves(CandCost, dp_cost[i])
    /\ matched' = TRUE
    /\ dp_cost' = [dp_cost EXCEPT ![i] = CandCost]
    /\ dp_units' = [dp_units EXCEPT ![i] = CandUnits]
    /\ Advance

\* lines 82-83
SweepTie ==
    /\ pc = "sweep"
    /\ Feasible
    /\ ~Improves(CandCost, dp_cost[i])
    /\ TieBreaks(CandCost, CandUnits, dp_cost[i], dp_units[i])
    /\ matched' = TRUE
    /\ dp_units' = [dp_units EXCEPT ![i] = CandUnits]
    /\ UNCHANGED dp_cost
    /\ Advance

\* line 74 true, neither branch taken
SweepKeep ==
    /\ pc = "sweep"
    /\ Feasible
    /\ ~Improves(CandCost, dp_cost[i])
    /\ ~TieBreaks(CandCost, CandUnits, dp_cost[i], dp_units[i])
    /\ matched' = TRUE
    /\ UNCHANGED <<dp_cost, dp_units>>
    /\ Advance

\* lines 85-88
Result(n) ==
    IF dp_cost[n] = INF
    THEN [kind |-> "None"]
    ELSE [kind |-> "value", P |-> dp_cost[n], U |-> dp_units[n]]

SolveReturn ==
    /\ pc = "return"
    /\ ret' = Result(Len(target_sequence))
    /\ first_ret' = IF calls = 0 THEN ret' ELSE first_ret
    /\ calls' = calls + 1
    /\ pc' = "ready"
    /\ UNCHANGED <<target_sequence, basic_units, dp_cost, dp_units, i, k, j, matched>>

-----------------------------------------------------------------------------
(* Inputs. *)

\* Catalogs of up to MaxUnits units over one symbol, for targets over it.
\* Over one symbol can_match never meets a mismatch, so that every dmax >= 0
\* gives the same run: the units take dmax = 0.
RunSymbols == {"A"}

RunUnits ==
    {BasicUnit(s, c, 0) : s \in SeqsUpTo(RunSymbols, 1, MaxUnitLen),
                          c \in 0..MaxCost}

RunInputs ==
    {<<t, us>> : t \in SeqsUpTo(RunSymbols, 0, MaxTargetLen),
                 us \in SeqsUpTo(RunUnits, 0, MaxUnits)}

\* One-unit catalogs over two symbols, for targets over them.
MixSymbols == {"A", "C"}

MixUnits ==
    {BasicUnit(s, c, d) : s \in SeqsUpTo(MixSymbols, 1, MaxUnitLen),
                          c \in 0..MaxCost, d \in 0..MaxDmax}

MixInputs ==
    {<<t, <<u>> >> : t \in SeqsUpTo(MixSymbols, 0, MaxTargetLen), u \in MixUnits}

\* Inputs the constructors accept although section 7 of the specification
\* calls them malformed: a negative cost, a negative dmax, a symbol outside
\* NUCLEOTIDES (in a unit or in the target), an empty target.
OddUnits ==
    { BasicUnit(<<"A">>, -1, 0), BasicUnit(<<"A">>, 0, -1),
      BasicUnit(<<"X">>, 0, 0), BasicUnit(<<"A">>, 0, 0) }

OddInputs ==
    {<<t, <<u>> >> : t \in SeqsUpTo(MixSymbols \cup {"X"}, 0, MaxTargetLen),
                     u \in OddUnits}

\* main(), Example 1 and Example 2
Example1Target == <<"A", "C", "G", "T", "A", "C", "G", "T", "A">>
Example1Units ==
    << BasicUnit(<<"A">>, 2, 0), BasicUnit(<<"C">>, 3, 0),
       BasicUnit(<<"G">>, 4, 0), BasicUnit(<<"T">>, 5, 0),
       BasicUnit(<<"A", "C", "G", "T">>, 10, 1),
       BasicUnit(<<"C", "G", "T", "A">>, 12, 1) >>
Example2Target == <<"A", "C", "G", "T">>
Example2Units ==
    << BasicUnit(<<"A">>, 2, 0), BasicUnit(<<"C">>, 3, 0),
       BasicUnit(<<"G">>, 4, 0), BasicUnit(<<"T">>, 5, 0),
       BasicUnit(<<"A", "C", "G", "T">>, 10, 0) >>

Init ==
    \/ \E in \in RunInputs \cup MixInputs \cup OddInputs : Construct(in[1], in[2])
    \/ Construct(Example1Target, Example1Units)
    \/ Construct(Example2Target, Example2Units)

Next ==
    \/ SolveCall
    \/ SweepNoMatch
    \/ SweepImprove
    \/ SweepTie
    \/ SweepKeep
    \/ SolveReturn

Spec == Init /\ [][Next]_vars

-----------------------------------------------------------------------------
(* Direct calls of can_match(unit, target_subsequence) on a Solution built  *)
(* from the slice and the unit.                                            *)

MatchUnits ==
    {BasicUnit(s, 0, d) : s \in SeqsUpTo(NUCLEOTIDES, 1, MaxUnitLen),
                          d \in 0..MaxDmax}

MatchSlices == SeqsUpTo(NUCLEOTIDES, 0, MaxSliceLen)

InitMatch == \E u \in MatchUnits, s \in MatchSlices : Construct(s, <<u>>)

CanMatchCall ==
    /\ pc = "ready"
    /\ matched' = can_match(basic_units[1], target_sequence)
    /\ pc' = "matched"
    /\ UNCHANGED <<target_sequence, basic_units, dp_cost, dp_units,
                   i, k, j, ret, calls, first_ret>>

NextMatch == CanMatchCall

SpecMatch == InitMatch /\ [][NextMatch]_vars

-----------------------------------------------------------------------------
(* What the claims are measured against. *)

\* s can be obtained from t by deleting symbols, under any alignment.
RECURSIVE IsSubsequence(_, _)
IsSubsequence(s, t) ==
    \/ s = << >>
    \/ /\ t # << >>
       /\ \/ (s[1] = t[1] /\ IsSubsequence(Tail(s), Tail(t)))
          \/ IsSubsequence(s, Tail(t))

\* the slice is the unit's sequence with at most dmax symbols deleted
Obtainable(unit, slice) ==
    /\ IsSubsequence(slice, unit.sequence)
    /\ Len(unit.sequence) - Len(slice) <= unit.dmax

\* the slices solve offers to can_match, and its answer
OracleOk(unit, slice) ==
    /\ Len(slice) <= Len(unit.sequence)
    /\ can_match(unit, slice)

LexLess(p, q) == p[1] < q[1] \/ (p[1] = q[1] /\ p[2] < q[2])

MinOf(S) == CHOOSE x \in S : \A y \in S : x <= y

CatalogSet == {basic_units[x] : x \in 1..Len(basic_units)}

\* the feasibility test a split is judged by: can_match as solve uses it, or
\* the documented deletion rule
Accepts(byOracle, unit, slice) ==
    IF byOracle THEN OracleOk(unit, slice) ELSE Obtainable(unit, slice)

\* The (cost, number of units) of every split of the target into contiguous
\* non-empty slices, each given the cheapest unit accepted for it.  A split
\* is the set of its inner cut positions.
SplitPairs(byOracle) ==
    LET n == Len(target_sequence)
        SliceCosts(a, b) ==
            {u.cost : u \in {v \in CatalogSet :
                          Accepts(byOracle, v, Slice(target_sequence, a, b))}}
        CostFrom(cuts) ==
            LET f[a \in 0..n] ==
                    IF a = n THEN 0
                    ELSE LET b == MinOf({x \in cuts \cup {n} : x > a})
                             cs == SliceCosts(a, b)
                         IN  IF cs = {} \/ f[b] = INF THEN INF
                             ELSE MinOf(cs) + f[b]
            IN  f[0]
        Count(cuts) == IF n = 0 THEN 0 ELSE Cardinality(cuts) + 1
    IN  {p \in {<<CostFrom(cuts), Count(cuts)>> : cuts \in SUBSET (1..(n - 1))} :
            p[1] # INF}

\* what solve is to return: the lexicographically least pair, or None
Expected(byOracle) ==
    LET ps == SplitPairs(byOracle)
    IN  IF ps = {} THEN [kind |-> "None"]
        ELSE LET best == CHOOSE p \in ps : \A q \in ps : p = q \/ LexLess(p, q)
             IN  [kind |-> "value", P |-> best[1], U |-> best[2]]

\* solve has just returned ret
Returned == pc = "ready" /\ calls >= 1

WellFormedUnit(u) ==
    /\ Len(u.sequence) >= 1
    /\ u.cost >= 0
    /\ u.dmax >= 0
    /\ \A x \in 1..Len(u.sequence) : u.sequence[x] \in NUCLEOTIDES

Malformed ==
    \/ target_sequence = << >>
    \/ \E x \in 1..Len(target_sequence) : target_sequence[x] \notin NUCLEOTIDES
    \/ \E u \in CatalogSet : ~WellFormedUnit(u)

-----------------------------------------------------------------------------
(* Claims. *)

\* C1: for units of length >= 1 with cost >= 0 and dmax >= 0, solve returns
\* the least cost over all splits of the target into slices each obtainable
\* from a unit by deleting at most dmax symbols, with the fewest units among
\* the splits of that cost, and (None, None) exactly when there is no split.
C1_SolveIsOptimalByDeletion ==
    (Returned /\ \A u \in CatalogSet : WellFormedUnit(u))
        => ret = Expected(FALSE)

\* C2: with can_match as the oracle on the slices no longer than the unit,
\* solve returns the lexicographically least (cost, units) over all splits of
\* the target: fewer units at equal least cost, the cheaper cost otherwise.
C2_SolveIsLexMinOverOracle == Returned => ret = Expected(TRUE)

\* a tie at the least cost is broken towards fewer units, and a cheaper split
\* with more units beats a dearer one with fewer
C2_Witness ==
    /\ Returned
    /\ ret.kind = "value"
    /\ \E p, q \in SplitPairs(TRUE) :
          /\ p[1] = ret.P /\ p[2] > ret.U
          /\ q[1] > ret.P /\ q[2] < ret.U

\* C4: Example 1 of main() returns (P=23, U=5).
C4_Example1Returns23And5 ==
    (Returned /\ target_sequence = Example1Target /\ basic_units = Example1Units)
        => ret = [kind |-> "value", P |-> 23, U |-> 5]

\* C5: a malformed input (empty target, negative cost, negative dmax, symbol
\* outside the alphabet) ends in an error outcome, never in a computed
\* (cost, units) answer nor in (None, None).
C5_MalformedInputRejected ==
    (Returned /\ Malformed) => ret.kind = "error"

\* C6: a second (or later) solve on the same Solution object returns what
\* the first returned, and its sweep changes no entry of dp_cost or dp_units.
C6_RepeatedSolveSame ==
    /\ [](calls >= 2 => ret = first_ret)
    /\ [][calls >= 1 => (dp_cost' = dp_cost /\ dp_units' = dp_units)]_vars

\* a second solve has returned a two-unit assembly
C6_Witness ==
    /\ pc = "ready" /\ calls = 2
    /\ ret.kind = "value" /\ ret.U >= 2
    /\ ret = first_ret

\* C9: a table entry is written only while the outer loop is at its index,
\* and then with a lexicographically strictly smaller pair; a predecessor
\* read has an index below the outer position; the outer position never
\* moves back within a sweep, so an entry the loop has passed stays as it is.
C9_SweepOrder ==
    /\ [](pc = "sweep" => (1 <= i /\ i <= Len(target_sequence) /\ 0 <= j /\ j < i))
    /\ [][\A x \in DOMAIN dp_cost :
             (dp_cost'[x] # dp_cost[x] \/ dp_units'[x] # dp_units[x])
                 => /\ pc = "sweep"
                    /\ x = i
                    /\ LexLess(<<dp_cost'[x], dp_units'[x]>>,
                               <<dp_cost[x], dp_units[x]>>)]_vars
    /\ [][(pc = "sweep" /\ pc' = "sweep") => i' >= i]_vars

\* the first sweep is at position 2, entry 1 is settled behind it and entry 2
\* has been written
C9_Witness ==
    /\ pc = "sweep" /\ calls = 0 /\ i = 2
    /\ dp_cost[1] # INF
    /\ dp_cost[2] # INF
    /\ dp_units[2] = 1
    /\ dp_units[1] = 1

\* C10: dp_cost[x] is the sentinel exactly when dp_units[x] is; entry 0 stays
\* (0, 0); a finite entry x has a finite predecessor below it joined by a
\* slice can_match accepts; an iteration whose predecessor is unreached
\* leaves the table as it is.
C10_SentinelPairs ==
    /\ [](\A x \in DOMAIN dp_cost :
            /\ dp_cost[x] = INF <=> dp_units[x] = INF
            /\ (x > 0 /\ dp_cost[x] # INF)
                 => \E y \in 0..(x - 1), u \in CatalogSet :
                       /\ dp_cost[y] # INF
                       /\ can_match(u, Slice(target_sequence, y, x)))
    /\ [](dp_cost[0] = 0 /\ dp_units[0] = 0)
    /\ [][(pc = "sweep" /\ dp_cost[j] = INF)
             => (dp_cost' = dp_cost /\ dp_units' = dp_units)]_vars

\* the sweep has met an accepted slice whose predecessor is unreached, with
\* the entry at the outer position still unreached too
C10_Witness ==
    /\ pc = "sweep"
    /\ Feasible
    /\ dp_cost[j] = INF
    /\ dp_cost[i] = INF

-----------------------------------------------------------------------------
(* Claims about can_match alone, under SpecMatch. *)

MatchDone == pc = "matched"
MatchUnit == basic_units[1]
MatchSlice == target_sequence

\* C3: for a slice of length L - k (0 <= k < L) that is a subsequence of the
\* unit's sequence, can_match is true if and only if k <= dmax.
C3_BudgetBoundary ==
    (/\ MatchDone
     /\ IsSubsequence(MatchSlice, MatchUnit.sequence)
     /\ Len(MatchSlice) >= 1)
        => (matched <=> Len(MatchUnit.sequence) - Len(MatchSlice) <= MatchUnit.dmax)

\* C7: the greedy scan is complete: a slice obtainable from the unit by at
\* most dmax deletions under any alignment is accepted.
C7_GreedyComplete ==
    (MatchDone /\ Obtainable(MatchUnit, MatchSlice)) => matched

\* a slice that needs a deletion before its first symbol and has a second
\* alignment is accepted
C7_Witness ==
    /\ MatchDone
    /\ matched
    /\ Obtainable(MatchUnit, MatchSlice)
    /\ Len(MatchSlice) >= 1
    /\ Len(MatchSlice) < Len(MatchUnit.sequence)
    /\ MatchUnit.sequence[1] # MatchSlice[1]

\* C8: can_match true implies that the slice is a subsequence of the unit's
\* sequence, whatever dmax is.
C8_NoFabrication ==
    (MatchDone /\ matched) => IsSubsequence(MatchSlice, MatchUnit.sequence)

====
